---- MODULE Spec2Model ----
(***************************************************************************)
(* Model of lib/streamlit/user_info.py (login, logout, UserInfoProxy) and  *)
(* of e2e_playwright/shared/performance.py (with_cdp_session,              *)
(* measure_performance, with_performance).                                 *)
(*                                                                         *)
(* A Python str is a sequence of text pieces, concatenated with \o.  A     *)
(* Python dict over the keys Keys is a total function to values, with      *)
(* Absent for a key the dict does not hold.                                *)
(***************************************************************************)
EXTENDS Integers, Sequences, FiniteSets, TLC

\* ---------------------------------------------------------------- bounds
\* Messages enqueued in one run, over all sessions.
MaxMessages == 2
\* Tests run under with_performance in one run.
MaxTests == 2

\* ------------------------------------------------------------- constants
AUTH_LOGIN_ENDPOINT == <<"/auth/login">>
AUTH_LOGOUT_ENDPOINT == <<"/auth/logout">>
PLACEHOLDER_EMAIL == "test@example.com"

Sessions == {"s1", "s2"}
NoCtx == "no_ctx"
Ctxs == Sessions \cup {NoCtx}
\* The session ids the runtime's registry holds; the others have a context only.
Registered == {"s1"}

Providers == {"google", "okta", "not-configured"}
BasePaths == {<< >>, <<"/app">>}

Keys == {"email", "name"}
Absent == "<absent>"
None == "<None>"
EmptyDict == [k \in Keys |-> Absent]
AnonymousCloud == [email |-> None, name |-> Absent]
LocalUser == [email |-> PLACEHOLDER_EMAIL, name |-> Absent]
Alice == [email |-> "alice@co.com", name |-> "Alice"]
UserInfos == {EmptyDict, AnonymousCloud, LocalUser, Alice}
\* A registry entry: the session's user info, when the registry holds the session.
Found(info) == [found |-> TRUE, user_info |-> info]
NotFound == [found |-> FALSE, user_info |-> EmptyDict]

Browsers == {"chromium", "firefox", "webkit"}
RateNone == -1
Rates == {RateNone, 1, 4}

VARIABLES
    base_path,       \* config option server.baseUrlPath
    credentials,     \* providers declared in the auth section of secrets.toml
    runtime_exists,  \* runtime.exists()
    user_info,       \* user_info[s]: the dict ctx.user_info of session s's context
    registry,        \* registry[s]: the runtime's entry for session id s
    queue,           \* queue[s]: messages enqueued on session s's context, oldest first
    last,            \* the last call made: operation, caller's context, argument, exception
    held,            \* the dict object a caller holds from to_dict(): a session's, a new one, none
    fresh,           \* the contents of the new dict a call without context returned
    pc,              \* pc[s]: where the script thread of session s is in login() or logout()
    arg,             \* arg[s]: the provider of the login() that thread is in
    delivered,       \* delivered[s]: messages the transport has sent to session s's client
    enqueued,        \* enqueued[s]: messages the thread of session s has enqueued, in order
    perf_pc,             \* where the with_performance wrapper of the running test is
    browser_name,        \* the browser_name keyword argument of the running test
    cpu_throttling_rate, \* the decorator's cpu_throttling_rate, RateNone for None
    client,              \* the CDP session of the running test, 0 before one is created
    cdp_sessions,        \* the number of CDP sessions created so far
    detach_calls,        \* detach_calls[c]: the number of client.detach() calls on session c
    sent,                \* the CDP commands sent on the running test's session
    perf_exc,            \* the exception propagating out of the running test, or "none"
    tests_run,           \* the number of tests finished
    results_written      \* the number of performance-results files written

authVars == <<base_path, credentials, runtime_exists, user_info, registry, queue, last>>
snapVars == <<held, fresh>>
concVars == <<pc, arg, delivered, enqueued>>
perfVars == <<perf_pc, browser_name, cpu_throttling_rate, client, cdp_sessions,
              detach_calls, sent, perf_exc, tests_run, results_written>>
vars == <<authVars, snapVars, concVars, perfVars>>

\* ------------------------------------------------- collaborators outside user_info.py
\* url_util.make_url_path: base path followed by the endpoint suffix.
make_url_path(base, path) == base \o path

\* auth_util.encode_provider_token: a keyed encoding that embeds the provider name.
Mac(provider) ==
    CASE provider = "google" -> "mac-7f1c"
      [] provider = "okta" -> "mac-a90e"
      [] OTHER -> "mac-03bd"

encode_provider_token(provider) == <<"tok.", provider, ".", Mac(provider)>>

\* The login handler's decoder: the provider of a token whose signature verifies.
decode_provider_token(token) ==
    IF Len(token) = 4 /\ token[1] = "tok." /\ token[3] = "." /\ token[4] = Mac(token[2])
    THEN token[2]
    ELSE "<invalid token>"

\* auth_util.validate_auth_credentials: TRUE when it returns, FALSE when it raises.
validate_auth_credentials(provider) == provider \in credentials

\* ScriptRunContext.enqueue: append to this context's own outbound queue.
enqueue(q, context, fwd_msg) == [q EXCEPT ![context] = Append(@, fwd_msg)]

\* Runtime.clear_user_info_for_session: empty the session's user info, if it has one.
clear_user_info_for_session(reg, session_id) ==
    IF ~reg[session_id].found THEN reg
    ELSE [reg EXCEPT ![session_id] = Found(EmptyDict)]

\* ------------------------------------------------------------- user_info.py
AuthRedirect(url) == [kind |-> "auth_redirect", url |-> url]

generate_login_redirect_url_raw(provider) ==
    make_url_path(base_path, AUTH_LOGIN_ENDPOINT) \o <<"?provider=">> \o <<provider>>

generate_login_redirect_url(provider) ==
    LET provider_token == encode_provider_token(provider)
        login_path == make_url_path(base_path, AUTH_LOGIN_ENDPOINT)
    IN  login_path \o <<"?provider=">> \o provider_token

login_exc_validate_first(context, provider) ==
    IF ~validate_auth_credentials(provider) THEN "UnknownProvider" ELSE "none"

\* login, lines 54-56: the exception the call ends with, "none" when it returns.
login_exc(context, provider) ==
    IF context # NoCtx /\ ~validate_auth_credentials(provider)
    THEN "UnknownProvider"
    ELSE "none"

login_enqueue_unvalidated(context, provider) ==
    IF context # NoCtx
    THEN enqueue(queue, context, AuthRedirect(generate_login_redirect_url(provider)))
    ELSE queue

\* login, lines 57-59: the queues after the call.
login_enqueue(context, provider) ==
    IF context # NoCtx /\ validate_auth_credentials(provider)
    THEN enqueue(queue, context, AuthRedirect(generate_login_redirect_url(provider)))
    ELSE queue

logout_clear_registry_only(context) ==
    IF context # NoCtx /\ runtime_exists
    THEN [user_info EXCEPT ![context] = EmptyDict]
    ELSE user_info

\* logout, line 67: context.user_info.clear()
logout_clear(context) ==
    IF context # NoCtx THEN [user_info EXCEPT ![context] = EmptyDict] ELSE user_info

logout_registry_create(context) ==
    IF context # NoCtx /\ runtime_exists
    THEN [registry EXCEPT ![context] = Found(EmptyDict)]
    ELSE registry

\* logout, lines 68-72
logout_registry(context) ==
    IF context # NoCtx /\ runtime_exists
    THEN clear_user_info_for_session(registry, context)
    ELSE registry

logout_enqueue_broadcast(context) ==
    IF context # NoCtx
    THEN [s \in Sessions |->
            Append(queue[s], AuthRedirect(make_url_path(base_path, AUTH_LOGOUT_ENDPOINT)))]
    ELSE queue

\* logout, lines 74-78
logout_enqueue(context) ==
    IF context # NoCtx
    THEN enqueue(queue, context, AuthRedirect(make_url_path(base_path, AUTH_LOGOUT_ENDPOINT)))
    ELSE queue

_get_user_info(ctx) == IF ctx = NoCtx THEN EmptyDict ELSE user_info[ctx]

\* dict.get(key): the value, None for a key the dict does not hold.
DictGet(d, key) == IF key \in Keys /\ d[key] # Absent THEN d[key] ELSE None
DictKeys(d) == {k \in Keys : d[k] # Absent}

proxy_bool_no_placeholder(ctx) == DictGet(_get_user_info(ctx), "email") # None

proxy_bool(ctx) ==
    LET user_email == DictGet(_get_user_info(ctx), "email")
    IN  user_email # None /\ user_email # PLACEHOLDER_EMAIL

\* __getitem__: the value, or the exception raised.
proxy_getitem(ctx, key) ==
    IF key \in DictKeys(_get_user_info(ctx))
    THEN [exc |-> "none", value |-> _get_user_info(ctx)[key]]
    ELSE [exc |-> "KeyError", value |-> None]

proxy_getattr(ctx, key) ==
    IF proxy_getitem(ctx, key).exc = "KeyError"
    THEN [exc |-> "AttributeError", value |-> None]
    ELSE proxy_getitem(ctx, key)

proxy_iter(ctx) == DictKeys(_get_user_info(ctx))
proxy_len(ctx) == Cardinality(DictKeys(_get_user_info(ctx)))

\* to_dict: the object _get_user_info() returns.
proxy_to_dict(ctx) == _get_user_info(ctx)

\* __setattr__ and __setitem__: raise before anything is written.
proxy_setattr(ctx, name, value) ==
    [exc |-> "StreamlitAPIException", user_info |-> user_info]
proxy_setitem_writes(ctx, name, value) ==
    [exc |-> "none",
     user_info |-> IF ctx = NoCtx THEN user_info
                   ELSE [user_info EXCEPT ![ctx][name] = value]]

proxy_setitem(ctx, name, value) ==
    [exc |-> "StreamlitAPIException", user_info |-> user_info]

\* ------------------------------------------------------------------ actions
Call(op, ctx, a, e) == [op |-> op, ctx |-> ctx, arg |-> a, exc |-> e]

RECURSIVE Sum(_, _)
Sum(f, S) == IF S = {} THEN 0 ELSE LET x == CHOOSE y \in S : TRUE IN f[x] + Sum(f, S \ {x})
Enqueued == Sum([s \in Sessions |-> Len(queue[s])], Sessions)

Login(c, p) ==
    /\ c # NoCtx => Enqueued < MaxMessages
    /\ queue' = login_enqueue(c, p)
    /\ last' = Call("login", c, p, login_exc(c, p))
    /\ UNCHANGED <<base_path, credentials, runtime_exists, user_info, registry>>
    /\ UNCHANGED <<perfVars, snapVars, concVars>>

Logout(c) ==
    /\ c # NoCtx => Enqueued < MaxMessages
    /\ user_info' = logout_clear(c)
    /\ registry' = logout_registry(c)
    /\ queue' = logout_enqueue(c)
    /\ last' = Call("logout", c, "", "none")
    /\ UNCHANGED <<base_path, credentials, runtime_exists>>
    /\ UNCHANGED <<perfVars, snapVars, concVars>>

WriteKeys == Keys
WriteValues == {"y", None}

SetItem(c, k, v) ==
    /\ user_info' = proxy_setitem(c, k, v).user_info
    /\ last' = Call("setitem", c, "", proxy_setitem(c, k, v).exc)
    /\ UNCHANGED <<base_path, credentials, runtime_exists, registry, queue>>
    /\ UNCHANGED <<perfVars, snapVars, concVars>>

SetAttr(c, k, v) ==
    /\ user_info' = proxy_setattr(c, k, v).user_info
    /\ last' = Call("setattr", c, "", proxy_setattr(c, k, v).exc)
    /\ UNCHANGED <<base_path, credentials, runtime_exists, registry, queue>>
    /\ UNCHANGED <<perfVars, snapVars, concVars>>

\* ---------------------------------------------------------- initial states
AuthInit ==
    /\ base_path \in BasePaths
    /\ credentials = {"google", "okta"}
    /\ runtime_exists \in BOOLEAN
    /\ user_info \in [Sessions -> UserInfos]
    /\ registry = [s \in Sessions |->
                       IF runtime_exists /\ s \in Registered THEN Found(user_info[s]) ELSE NotFound]
    /\ queue = [s \in Sessions |-> << >>]
    /\ last = Call("init", NoCtx, "", "none")

SnapInit == held = "none" /\ fresh = EmptyDict

ConcInit ==
    /\ pc = [s \in Sessions |-> "idle"]
    /\ arg = [s \in Sessions |-> ""]
    /\ delivered = [s \in Sessions |-> << >>]
    /\ enqueued = [s \in Sessions |-> << >>]

PerfInit ==
    /\ perf_pc = "idle"
    /\ browser_name = ""
    /\ cpu_throttling_rate = RateNone
    /\ client = 0
    /\ cdp_sessions = 0
    /\ detach_calls = [c \in 1..MaxTests |-> 0]
    /\ sent = << >>
    /\ perf_exc = "none"
    /\ tests_run = 0
    /\ results_written = 0

Init == AuthInit /\ SnapInit /\ ConcInit /\ PerfInit

Next ==
    \/ \E c \in Ctxs, p \in Providers : Login(c, p)
    \/ \E c \in Ctxs : Logout(c)
    \/ \E c \in Ctxs, k \in WriteKeys, v \in WriteValues : SetItem(c, k, v)
    \/ \E c \in Ctxs, k \in WriteKeys, v \in WriteValues : SetAttr(c, k, v)

Spec == Init /\ [][Next]_vars

\* ------------------------------------------- to_dict() and the dict it returns
NewDict == "new dict"

\* _get_user_info, lines 89-94: the object returned, ctx.user_info itself or a new {}.
_get_user_info_object(ctx) == IF ctx = NoCtx THEN NewDict ELSE ctx

\* to_dict, line 164: returns the object _get_user_info() returned.
to_dict_object(ctx) == _get_user_info_object(ctx)

HeldValue == IF held = NewDict THEN fresh ELSE user_info[held]

ToDict(c) ==
    /\ held' = to_dict_object(c)
    /\ fresh' = IF to_dict_object(c) = NewDict THEN EmptyDict ELSE fresh
    /\ last' = Call("to_dict", c, "", "none")
    /\ UNCHANGED <<base_path, credentials, runtime_exists, user_info, registry, queue>>
    /\ UNCHANGED <<perfVars, concVars>>

\* The caller sets (v a value) or deletes (v = Absent) key k of the dict it holds.
MutateValues == {"mallory@evil.com", Absent}

MutateHeld(k, v) ==
    /\ held # "none"
    /\ HeldValue[k] # v
    /\ IF held = NewDict
       THEN fresh' = [fresh EXCEPT ![k] = v] /\ UNCHANGED user_info
       ELSE user_info' = [user_info EXCEPT ![held][k] = v] /\ UNCHANGED fresh
    /\ last' = Call("mutate", last.ctx, k, "none")
    /\ UNCHANGED <<base_path, credentials, runtime_exists, registry, queue, held>>
    /\ UNCHANGED <<perfVars, concVars>>

SnapNext ==
    \/ \E c \in Ctxs : ToDict(c)
    \/ \E k \in Keys, v \in MutateValues : MutateHeld(k, v)
    \/ \E c \in Ctxs : Logout(c)

SnapSpec == Init /\ [][SnapNext]_vars

\* ------------------------------------- login and logout, statement by statement
\* One script thread per session; get_script_run_ctx() in it is that session's context.
\* Messages enqueued so far plus the calls under way, each about to enqueue one.
Committed ==
    Sum([s \in Sessions |-> Len(enqueued[s])], Sessions)
        + Cardinality({s \in Sessions : pc[s] # "idle"})

LoginBegin(s, p) ==
    /\ pc[s] = "idle"
    /\ Committed < MaxMessages
    /\ login_exc(s, p) = "none"
    /\ pc' = [pc EXCEPT ![s] = "login:enqueue"]
    /\ arg' = [arg EXCEPT ![s] = p]
    /\ UNCHANGED <<authVars, perfVars, snapVars, delivered, enqueued>>

LoginRaise(s, p) ==
    /\ pc[s] = "idle"
    /\ login_exc(s, p) # "none"
    /\ last' = Call("login", s, p, login_exc(s, p))
    /\ UNCHANGED <<base_path, credentials, runtime_exists, user_info, registry, queue>>
    /\ UNCHANGED <<perfVars, snapVars, concVars>>

LoginEnqueue(s) ==
    /\ pc[s] = "login:enqueue"
    /\ queue' = login_enqueue(s, arg[s])
    /\ enqueued' = [enqueued EXCEPT
                      ![s] = Append(@, AuthRedirect(generate_login_redirect_url(arg[s])))]
    /\ pc' = [pc EXCEPT ![s] = "idle"]
    /\ last' = Call("login", s, arg[s], "none")
    /\ UNCHANGED <<base_path, credentials, runtime_exists, user_info, registry>>
    /\ UNCHANGED <<perfVars, snapVars, arg, delivered>>

LogoutClear(s) ==
    /\ pc[s] = "idle"
    /\ Committed < MaxMessages
    /\ user_info' = logout_clear(s)
    /\ pc' = [pc EXCEPT ![s] = "logout:registry"]
    /\ UNCHANGED <<base_path, credentials, runtime_exists, registry, queue, last>>
    /\ UNCHANGED <<perfVars, snapVars, arg, delivered, enqueued>>

LogoutRegistry(s) ==
    /\ pc[s] = "logout:registry"
    /\ registry' = logout_registry(s)
    /\ pc' = [pc EXCEPT ![s] = "logout:enqueue"]
    /\ UNCHANGED <<base_path, credentials, runtime_exists, user_info, queue, last>>
    /\ UNCHANGED <<perfVars, snapVars, arg, delivered, enqueued>>

LogoutEnqueue(s) ==
    /\ pc[s] = "logout:enqueue"
    /\ queue' = logout_enqueue(s)
    /\ enqueued' = [enqueued EXCEPT
                      ![s] = Append(@, AuthRedirect(make_url_path(base_path, AUTH_LOGOUT_ENDPOINT)))]
    /\ pc' = [pc EXCEPT ![s] = "idle"]
    /\ last' = Call("logout", s, "", "none")
    /\ UNCHANGED <<base_path, credentials, runtime_exists, user_info, registry>>
    /\ UNCHANGED <<perfVars, snapVars, arg, delivered>>

\* The transport sends the oldest message of session s's queue to session s's client.
Deliver(s) ==
    /\ queue[s] # << >>
    /\ delivered' = [delivered EXCEPT ![s] = Append(@, Head(queue[s]))]
    /\ queue' = [queue EXCEPT ![s] = Tail(@)]
    /\ UNCHANGED <<base_path, credentials, runtime_exists, user_info, registry, last>>
    /\ UNCHANGED <<perfVars, snapVars, pc, arg, enqueued>>

ConcNext ==
    \/ \E s \in Sessions, p \in Providers : LoginBegin(s, p)
    \/ \E s \in Sessions, p \in Providers : LoginRaise(s, p)
    \/ \E s \in Sessions : LoginEnqueue(s)
    \/ \E s \in Sessions : LogoutClear(s)
    \/ \E s \in Sessions : LogoutRegistry(s)
    \/ \E s \in Sessions : LogoutEnqueue(s)
    \/ \E s \in Sessions : Deliver(s)

ConcSpec == Init /\ [][ConcNext]_vars

\* --------------------------------------------------- shared/performance.py
\* with_cdp_session, lines 35-36: the generator resumes at its yield when the
\* with-block is left; a propagating exception is raised there again, and the
\* statement after the yield runs only when there is none.
with_cdp_session_exit(exc) ==
    IF exc = "none"
    THEN [detach_calls EXCEPT ![client] = @ + 1]
    ELSE detach_calls

\* measure_performance, lines 78-82: the commands sent before the test runs.
setup_commands(rate) ==
    (IF rate # RateNone THEN <<"Emulation.setCPUThrottlingRate">> ELSE << >>)
        \o <<"Performance.enable", "Runtime.evaluate">>

\* measure_performance, lines 87-91: the commands sent after the test has run.
collect_commands == <<"Performance.getMetrics", "Runtime.evaluate">>

\* pytest calls the decorated test: wrapper(*args, **kwargs).
BeginTest(b, r) ==
    /\ perf_pc \in {"idle", "done"}
    /\ tests_run < MaxTests
    /\ perf_pc' = "wrapper"
    /\ browser_name' = b
    /\ cpu_throttling_rate' = r
    /\ client' = 0
    /\ sent' = << >>
    /\ perf_exc' = "none"
    /\ UNCHANGED <<cdp_sessions, detach_calls, tests_run, results_written>>
    /\ UNCHANGED <<authVars, snapVars, concVars>>

\* wrapper, lines 134-135: another browser runs the test unmeasured; it passes or raises.
RunUnmeasured(passes) ==
    /\ perf_pc = "wrapper"
    /\ browser_name # "chromium"
    /\ perf_exc' = IF passes THEN "none" ELSE "AssertionError"
    /\ perf_pc' = "done"
    /\ tests_run' = tests_run + 1
    /\ UNCHANGED <<browser_name, cpu_throttling_rate, client, cdp_sessions, detach_calls,
                   sent, results_written>>
    /\ UNCHANGED <<authVars, snapVars, concVars>>

\* with_cdp_session, lines 34-35, entered from measure_performance line 77.
NewCdpSession ==
    /\ perf_pc = "wrapper"
    /\ browser_name = "chromium"
    /\ cdp_sessions' = cdp_sessions + 1
    /\ client' = cdp_sessions + 1
    /\ perf_pc' = "setup"
    /\ UNCHANGED <<browser_name, cpu_throttling_rate, detach_calls, sent, perf_exc,
                   tests_run, results_written>>
    /\ UNCHANGED <<authVars, snapVars, concVars>>

\* measure_performance, lines 78-85: the setup commands are sent, or one of them raises.
Setup(n) ==
    /\ perf_pc = "setup"
    /\ n <= Len(setup_commands(cpu_throttling_rate))
    /\ sent' = SubSeq(setup_commands(cpu_throttling_rate), 1, n)
    /\ IF n = Len(setup_commands(cpu_throttling_rate))
       THEN perf_pc' = "test" /\ UNCHANGED perf_exc
       ELSE perf_pc' = "leave" /\ perf_exc' = "Error"
    /\ UNCHANGED <<browser_name, cpu_throttling_rate, client, cdp_sessions, detach_calls,
                   tests_run, results_written>>
    /\ UNCHANGED <<authVars, snapVars, concVars>>

\* wrapper, line 148: the test runs inside the with-block; it passes or raises.
RunTest(passes) ==
    /\ perf_pc = "test"
    /\ IF passes
       THEN perf_pc' = "collect" /\ UNCHANGED perf_exc
       ELSE perf_pc' = "leave" /\ perf_exc' = "AssertionError"
    /\ UNCHANGED <<browser_name, cpu_throttling_rate, client, cdp_sessions, detach_calls,
                   sent, tests_run, results_written>>
    /\ UNCHANGED <<authVars, snapVars, concVars>>

\* measure_performance, lines 87-106: the metrics are read and written, or a step raises.
Collect(ok) ==
    /\ perf_pc = "collect"
    /\ sent' = sent \o collect_commands
    /\ results_written' = IF ok THEN results_written + 1 ELSE results_written
    /\ perf_exc' = IF ok THEN "none" ELSE "Error"
    /\ perf_pc' = "leave"
    /\ UNCHANGED <<browser_name, cpu_throttling_rate, client, cdp_sessions, detach_calls,
                   tests_run>>
    /\ UNCHANGED <<authVars, snapVars, concVars>>

\* The with-block of measure_performance line 77 is left: with_cdp_session resumes.
LeaveCdpSession ==
    /\ perf_pc = "leave"
    /\ detach_calls' = with_cdp_session_exit(perf_exc)
    /\ perf_pc' = "done"
    /\ tests_run' = tests_run + 1
    /\ UNCHANGED <<browser_name, cpu_throttling_rate, client, cdp_sessions, sent, perf_exc,
                   results_written>>
    /\ UNCHANGED <<authVars, snapVars, concVars>>

PerfNext ==
    \/ \E b \in Browsers, r \in Rates : BeginTest(b, r)
    \/ \E passes \in BOOLEAN : RunUnmeasured(passes)
    \/ NewCdpSession
    \/ \E n \in 0..3 : Setup(n)
    \/ \E passes \in BOOLEAN : RunTest(passes)
    \/ \E ok \in BOOLEAN : Collect(ok)
    \/ LeaveCdpSession

\* The performance harness runs apart from any app session.
PerfStart ==
    /\ base_path = << >>
    /\ credentials = {}
    /\ runtime_exists = FALSE
    /\ user_info = [s \in Sessions |-> EmptyDict]
    /\ registry = [s \in Sessions |-> NotFound]
    /\ queue = [s \in Sessions |-> << >>]
    /\ last = Call("init", NoCtx, "", "none")
    /\ SnapInit /\ ConcInit /\ PerfInit

PerfSpec == PerfStart /\ [][PerfNext]_vars

\* ------------------------------------------------------------------- claims
IsCall(c, op, ctx) == c.op = op /\ c.ctx = ctx
LoginUrlPrefix == base_path \o <<"/auth/login", "?provider=">>
LogoutMsg == [kind |-> "auth_redirect", url |-> base_path \o <<"/auth/logout">>]
TokenOf(url) == SubSeq(url, Len(LoginUrlPrefix) + 1, Len(url))
OthersKeep(s) == \A o \in Sessions \ {s} : queue'[o] = queue[o]

\* C1: with a bound context, login(p) for a configured provider p returns, appends
\* exactly one auth_redirect message to that session's queue, whose url is
\* base_path + "/auth/login" + "?provider=" + token with decode(token) = p, and
\* leaves the user info as it was.
C1_LoginEnqueuesRedirect ==
    [][\A s \in Sessions, p \in credentials :
          (IsCall(last', "login", s) /\ last'.arg = p) =>
              /\ last'.exc = "none"
              /\ Len(queue'[s]) = Len(queue[s]) + 1
              /\ SubSeq(queue'[s], 1, Len(queue[s])) = queue[s]
              /\ OthersKeep(s)
              /\ LET m == queue'[s][Len(queue'[s])] IN
                    /\ m.kind = "auth_redirect"
                    /\ SubSeq(m.url, 1, Len(LoginUrlPrefix)) = LoginUrlPrefix
                    /\ decode_provider_token(TokenOf(m.url)) = p
                    /\ m.url = LoginUrlPrefix \o TokenOf(m.url)
              /\ user_info' = user_info]_vars

C1_Witness ==
    /\ last.op = "login" /\ last.ctx \in Sessions /\ last.arg = "okta" /\ last.exc = "none"
    /\ base_path # << >>
    /\ Len(queue[last.ctx]) = 2

\* C2: with a bound context, login(p) for a provider p that is not configured raises
\* the unknown-provider error and leaves every queue and the user info unchanged.
C2_UnknownProviderEnqueuesNothing ==
    [][\A s \in Sessions, p \in Providers \ credentials :
          (IsCall(last', "login", s) /\ last'.arg = p) =>
              /\ last'.exc = "UnknownProvider"
              /\ queue' = queue
              /\ user_info' = user_info
              /\ registry' = registry]_vars

C2_Witness ==
    /\ last.op = "login" /\ last.ctx \in Sessions /\ last.arg \notin credentials
    /\ last.exc = "UnknownProvider"
    /\ Len(queue[last.ctx]) = 1

\* C3: with a bound context, from any state and whether or not the runtime exists,
\* logout() appends exactly one auth_redirect message with url base_path +
\* "/auth/logout" to that session's queue and leaves the session's user info empty.
C3_LogoutRedirectsAndClears ==
    [][\A s \in Sessions :
          IsCall(last', "logout", s) =>
              /\ last'.exc = "none"
              /\ queue'[s] = Append(queue[s], LogoutMsg)
              /\ OthersKeep(s)
              /\ DictKeys(user_info'[s]) = {}]_vars

C3_Witness ==
    /\ last.op = "logout" /\ last.ctx \in Sessions
    /\ ~runtime_exists
    /\ Len(queue[last.ctx]) = 2
    /\ queue[last.ctx][1] # LogoutMsg

\* C4: every write on the proxy, by key or by attribute, raises the read-only error
\* and leaves the user info, the registry and the queues unchanged.
C4_ProxyWritesRejected ==
    [][last'.op \in {"setitem", "setattr"} =>
          /\ last'.exc = "StreamlitAPIException"
          /\ user_info' = user_info
          /\ registry' = registry
          /\ queue' = queue]_vars

C4_Witness ==
    /\ last.op = "setitem" /\ last.ctx \in Sessions /\ last.exc = "StreamlitAPIException"
    /\ user_info[last.ctx] = Alice

\* C6: with no context bound, login(p) for any p and logout() return without
\* raising and change no queue, user info or registry entry, and the proxy shows an
\* empty mapping: length 0, no keys, falsy, to_dict() empty.
C6_NoContextIsNeutral ==
    /\ [](/\ proxy_len(NoCtx) = 0
          /\ proxy_iter(NoCtx) = {}
          /\ ~proxy_bool(NoCtx)
          /\ DictKeys(proxy_to_dict(NoCtx)) = {})
    /\ [][(last'.ctx = NoCtx /\ last'.op \in {"login", "logout"}) =>
             /\ last'.exc = "none"
             /\ queue' = queue
             /\ user_info' = user_info
             /\ registry' = registry]_vars

C6_Witness ==
    /\ last.op = "login" /\ last.ctx = NoCtx /\ last.arg \notin credentials
    /\ last.exc = "none"
    /\ \E s \in Sessions : Len(queue[s]) > 0

\* C8: the proxy is truthy exactly when the session's user info holds an email that
\* is not None and not the placeholder; it is falsy with no context and after logout().
C8_Truthiness ==
    /\ \A s \in Sessions :
          proxy_bool(s) <=> /\ user_info[s]["email"] # Absent
                            /\ user_info[s]["email"] # None
                            /\ user_info[s]["email"] # "test@example.com"
    /\ ~proxy_bool(NoCtx)
    /\ (last.op = "logout" /\ last.ctx \in Sessions) => ~proxy_bool(last.ctx)

C8_Witness ==
    /\ last.op = "logout" /\ last.ctx \in Sessions
    /\ \E s \in Sessions : proxy_bool(s)

\* C9: clearing the user info of a session id the registry does not hold changes
\* nothing and clearing is idempotent; logout() for such a session, or a second
\* logout() in a row, still returns, leaves the user info empty and enqueues the
\* logout redirect.
C9_ClearAbsentIsNoOp ==
    /\ [](\A s \in Sessions :
            /\ ~registry[s].found => clear_user_info_for_session(registry, s) = registry
            /\ clear_user_info_for_session(clear_user_info_for_session(registry, s), s)
                  = clear_user_info_for_session(registry, s))
    /\ [][\A s \in Sessions :
            (IsCall(last', "logout", s) /\ (~registry[s].found \/ IsCall(last, "logout", s))) =>
                /\ last'.exc = "none"
                /\ registry' = registry
                /\ DictKeys(user_info'[s]) = {}
                /\ Len(queue'[s]) = Len(queue[s]) + 1
                /\ queue'[s][Len(queue'[s])].url = make_url_path(base_path, AUTH_LOGOUT_ENDPOINT)]_vars

C9_Witness ==
    /\ last.op = "logout" /\ last.ctx \in Sessions
    /\ runtime_exists /\ ~registry[last.ctx].found
    /\ Len(queue[last.ctx]) = 2
    /\ queue[last.ctx][1] = queue[last.ctx][2]

\* C5: to_dict() returns a snapshot equal to the user info at call time, and
\* changing the returned snapshot (setting or deleting a key) changes neither the
\* session's user info nor what the proxy reads afterwards.
C5_ToDictIsSnapshot ==
    [][/\ \A c \in Ctxs :
             IsCall(last', "to_dict", c) => HeldValue' = _get_user_info(c)'
       /\ last'.op = "mutate" =>
             /\ user_info' = user_info
             /\ \A c \in Ctxs :
                   /\ proxy_len(c)' = proxy_len(c)
                   /\ proxy_iter(c)' = proxy_iter(c)
                   /\ proxy_bool(c)' = proxy_bool(c)
                   /\ \A k \in Keys : proxy_getitem(c, k)' = proxy_getitem(c, k)]_vars

\* C7: under any interleaving of the sessions' login and logout calls, the messages
\* delivered to or queued for a session are exactly the ones that session's thread
\* enqueued, in the order it enqueued them, and a session's user info and registry
\* entry change only in a step of that session's own logout.
C7_PerSessionFifoIsolation ==
    /\ [](\A s \in Sessions : delivered[s] \o queue[s] = enqueued[s])
    /\ [][\A s \in Sessions :
            /\ user_info'[s] # user_info[s] => pc[s] = "idle" /\ pc'[s] = "logout:registry"
            /\ registry'[s] # registry[s] =>
                  pc[s] = "logout:registry" /\ pc'[s] = "logout:enqueue"]_vars

C7_Witness ==
    /\ Len(delivered["s1"]) = 1 /\ Len(delivered["s2"]) = 1
    /\ delivered["s1"][1].url = base_path \o <<"/auth/logout">>
    /\ delivered["s2"][1].url # delivered["s1"][1].url
    /\ user_info["s2"] = Alice

\* C10: once the with-block of with_cdp_session has been left, normally or by an
\* exception, client.detach() has been called exactly once on the session created.
C10_DetachedOnExit ==
    (perf_pc = "done" /\ client # 0) => detach_calls[client] = 1

====
